---------------------------- MODULE Spec2Model ----------------------------
(***************************************************************************)
(* TrouDeVer: a WebSocket <-> TCP tunnel driven by an egui front end.      *)
(*                                                                         *)
(* The model covers src/src/main.rs: the front end's state and its three   *)
(* entry points (update's event drain, start_proxy, stop_proxy), the       *)
(* spawned tunnel tasks (run_proxy_logic followed by the Stopped event),   *)
(* the event channel between them, the length-prefixed framing of the      *)
(* WebSocket -> TCP direction and the control sniffing of the              *)
(* TCP -> WebSocket direction.                                             *)
(*                                                                         *)
(* A tunnel task is an async task: one action of the model is one poll of  *)
(* the task, from the suspension point (.await) it is parked at to the     *)
(* next one, or to its end; the way back from the end of an arm of the     *)
(* loop to select! is an action of its own, within the same poll.          *)
(***************************************************************************)
EXTENDS Integers, Sequences, FiniteSets, TLC

(***************************************************************************)
(* Bounds of the model.                                                    *)
(***************************************************************************)
\* tunnel tasks start_proxy may spawn in one run
MaxSessions == 2
\* select! iterations one tunnel task may run
MaxOps == 1
\* segments (records or stray bytes) concatenated into one TCP chunk
MaxSegs == 2
\* elements of one WebSocket payload
MaxPayloadLen == 5
\* select! iterations of the one tunnel task of SpecTunnel
MaxRounds == 2

Sessions == 1..MaxSessions

(***************************************************************************)
(* Byte strings.                                                           *)
(*                                                                         *)
(* A WebSocket payload and the bytes written to the TCP stream are         *)
(* sequences of elements: a byte 0..255, or Blk, which stands for a run of *)
(* BlkBytes (2^30) filler bytes, so that payloads longer than a u32 can    *)
(* count are inputs of the model.  A length is kept as two limbs,          *)
(* hi * BlkBytes + lo with lo < BlkBytes (usize is wider than TLC's        *)
(* integers).                                                              *)
(***************************************************************************)
ByteBase == 256
Blk == ByteBase
BlkBytes == ByteBase * ByteBase * ByteBase * 64
\* 2^32 = BlocksPerU32 * BlkBytes
BlocksPerU32 == (ByteBase * ByteBase) \div (BlkBytes \div (ByteBase * ByteBase))

RECURSIVE CountBlk(_)
CountBlk(s) ==
    IF s = <<>> THEN 0
    ELSE (IF Head(s) = Blk THEN 1 ELSE 0) + CountBlk(Tail(s))

\* data.len(): usize
DataLen(data) ==
    [hi |-> CountBlk(data), lo |-> Len(data) - CountBlk(data)]

\* data.is_empty()
IsEmpty(data) == Len(data) = 0

\* data.len() as u32: the value modulo 2^32
AsU32(n) == [hi |-> n.hi % BlocksPerU32, lo |-> n.lo]

\* u32::to_be_bytes
ToBeBytes(u) ==
    << u.hi * 64 + (u.lo \div (ByteBase * ByteBase * ByteBase)),
       (u.lo \div (ByteBase * ByteBase)) % ByteBase,
       (u.lo \div ByteBase) % ByteBase,
       u.lo % ByteBase >>

\* len_bytes of the frame that carries data
LenBytes(data) == ToBeBytes(AsU32(DataLen(data)))

(***************************************************************************)
(* TCP chunks.                                                             *)
(*                                                                         *)
(* A chunk is a sequence of lexical units of the bytes read:               *)
(*   "{" "}"  the braces of a JSON object                                  *)
(*   "I"      the member  "internal": true                                 *)
(*   "A" "B"  the members "room": "A" and "room": "B"                      *)
(*   "N"      the member  "room": 5   (a room that is no string)           *)
(*   "X"      the member  "x": 1                                           *)
(*   "#"      a byte at which no JSON value begins                         *)
(*   "U"      a byte that is no UTF-8 (0xFF), at which no JSON value begins*)
(***************************************************************************)
Members == {"I", "A", "B", "N", "X"}
Units == Members \cup {"{", "}", "#", "U"}

\* complete records
Records ==
    { <<"{", "I", "}">>, <<"{", "I", "A", "}">>, <<"{", "I", "B", "}">>,
      <<"{", "A", "}">>, <<"{", "X", "}">>, <<"{", "I", "N", "}">> }

\* pieces of records and stray bytes
Strays == { <<"{">>, <<"}">>, <<"I">>, <<"#">>, <<"U">> }

Segments == Records \cup Strays

RECURSIVE ChunksOf(_)
ChunksOf(n) ==
    IF n = 0 THEN { <<>> }
    ELSE LET shorter == ChunksOf(n - 1)
         IN  shorter \cup { c \o s : c \in shorter, s \in Segments }

\* what one read of the TCP stream may return (n > 0)
Chunks == ChunksOf(MaxSegs) \ { <<>> }


\* std::str::from_utf8(data_chunk).is_ok()
IsUtf8(chunk) == \A i \in 1..Len(chunk) : chunk[i] # "U"

\* a ws_message that is Text whatever the bytes are
ToWsMessageText(chunk) == [kind |-> "Text", payload |-> chunk]

\* the ws_message built from data_chunk
ToWsMessage(chunk) ==
    IF IsUtf8(chunk)
    THEN [kind |-> "Text", payload |-> chunk]
    ELSE [kind |-> "Binary", payload |-> chunk]

(***************************************************************************)
(* Control sniffing: serde_json::Deserializer::from_slice(..).into_iter()  *)
(* yields one item per JSON value that begins where the last one ended;    *)
(* at the first position where no value parses it yields the error and     *)
(* then ends (the slice reader is cut at a failure).                       *)
(***************************************************************************)
\* the first position at or after p that holds no member
RECURSIVE MembersEnd(_, _)
MembersEnd(chunk, p) ==
    IF p <= Len(chunk) /\ chunk[p] \in Members
    THEN MembersEnd(chunk, p + 1)
    ELSE p

\* the value of key "room" in an object with these members: the last one wins
RECURSIVE RoomOf(_)
RoomOf(members) ==
    IF members = <<>> THEN "none"
    ELSE LET last == members[Len(members)]
         IN  IF last \in {"A", "B", "N"} THEN last
             ELSE RoomOf(SubSeq(members, 1, Len(members) - 1))

\* one item of the stream: the JSON value that begins at position p
ParseValue(chunk, p) ==
    LET q == MembersEnd(chunk, p + 1)
    IN  IF chunk[p] = "{" /\ q <= Len(chunk) /\ chunk[q] = "}"
        THEN LET members == SubSeq(chunk, p + 1, q - 1)
             IN  [ok |-> TRUE, next |-> q + 1,
                  internal |-> \E i \in 1..Len(members) : members[i] = "I",
                  room |-> RoomOf(members)]
        ELSE [ok |-> FALSE, next |-> p, internal |-> FALSE, room |-> "none"]

\* value.get("room").and_then(|v| v.as_str())
RoomStr(value) == IF value.room \in {"A", "B"} THEN value.room ELSE "none"

Ev(type, arg) == [type |-> type, arg |-> arg]

\* a sniffer that takes any record with a string room for a control record
RECURSIVE SniffFromAnyRoom(_, _, _)
SniffFromAnyRoom(chunk, p, acc) ==
    IF p > Len(chunk) THEN acc
    ELSE LET value == ParseValue(chunk, p)
         IN  IF ~value.ok THEN acc
             ELSE IF value.internal \/ RoomStr(value) # "none"
             THEN SniffFromAnyRoom(chunk, value.next,
                    [forward_message |-> FALSE,
                     events |-> IF RoomStr(value) # "none"
                                THEN acc.events \o
                                     << Ev("RoomCode", RoomStr(value)),
                                        Ev("Log", "Room ID: " \o RoomStr(value)) >>
                                ELSE acc.events])
             ELSE SniffFromAnyRoom(chunk, value.next, acc)

\* a sniffer that steps over a byte where no value begins and parses on
RECURSIVE SniffFromResync(_, _, _)
SniffFromResync(chunk, p, acc) ==
    IF p > Len(chunk) THEN acc
    ELSE LET value == ParseValue(chunk, p)
         IN  IF ~value.ok THEN SniffFromResync(chunk, p + 1, acc)
             ELSE IF value.internal
             THEN SniffFromResync(chunk, value.next,
                    [forward_message |-> FALSE,
                     events |-> IF RoomStr(value) # "none"
                                THEN acc.events \o
                                     << Ev("RoomCode", RoomStr(value)),
                                        Ev("Log", "Room ID: " \o RoomStr(value)) >>
                                ELSE acc.events])
             ELSE SniffFromResync(chunk, value.next, acc)

\* the `for json in stream` loop, from position p on
RECURSIVE SniffFrom(_, _, _)
SniffFrom(chunk, p, acc) ==
    IF p > Len(chunk) THEN acc
    ELSE LET value == ParseValue(chunk, p)
         IN  IF ~value.ok THEN acc
             ELSE IF value.internal
             THEN SniffFrom(chunk, value.next,
                    [forward_message |-> FALSE,
                     events |-> IF RoomStr(value) # "none"
                                THEN acc.events \o
                                     << Ev("RoomCode", RoomStr(value)),
                                        Ev("Log", "Room ID: " \o RoomStr(value)) >>
                                ELSE acc.events])
             ELSE SniffFrom(chunk, value.next, acc)

\* a forwarding decision that never suppresses
SniffAlwaysForward(chunk) ==
    [forward_message |-> TRUE,
     events |-> SniffFrom(chunk, 1, [forward_message |-> TRUE, events |-> <<>>]).events]

\* forward_message and the events sent while sniffing data_chunk
Sniff(chunk) == SniffFrom(chunk, 1, [forward_message |-> TRUE, events |-> <<>>])

\* where the stream of values ends: the first position at or after p where
\* no value parses, Len(chunk) + 1 when every byte was parsed
RECURSIVE StopsAt(_, _)
StopsAt(chunk, p) ==
    IF p <= Len(chunk) /\ ParseValue(chunk, p).ok
    THEN StopsAt(chunk, ParseValue(chunk, p).next)
    ELSE p

\* the bytes of data_chunk the stream left unparsed, when they are the start
\* of a record: a brace and members, the closing brace still to come
Unfinished(chunk) ==
    LET left == SubSeq(chunk, StopsAt(chunk, 1), Len(chunk))
    IN  IF left # <<>> /\ left[1] = "{" /\ MembersEnd(left, 2) = Len(left) + 1
        THEN left
        ELSE <<>>

(***************************************************************************)
(* State.                                                                  *)
(***************************************************************************)
VARIABLES
    \* TrouDeVerApp
    ws_url,        \* the WebSocket URL field: "valid" or "malformed"
    is_running,
    room_number,   \* "none" or the room code
    status_msg,
    logs,
    rx_event,      \* the events sent on tx_event and not yet received
    proxy_abort,   \* 0 (None) or the task the abort handle is of
    spawned,       \* tasks spawned so far; task t is the t-th spawned
    \* one tunnel task (a spawned future) per session
    pc,            \* where the task is parked
    aborted,       \* "no", or how abort() found the task: "parked", "running"
    url,           \* the ws_url the task was spawned with
    ws_ended,      \* ws_read.next() has yielded None
    ops,           \* iterations of the loop completed
    data,          \* the payload of the message this iteration frames
    tcp_buffer,    \* data_chunk: the bytes this iteration read
    yielded,       \* what the future that began this iteration resolved to
    \* what the task did, as its peers see it
    wrote,         \* elements of its buffer the write_all in flight has written
    written,       \* elements written to the TCP stream in this iteration
    failure,       \* the transport operation that failed in this iteration
    carry,         \* the start of a record the read before this one was forwarded with
    sent,          \* messages handed to ws_write.send in this iteration
    trace,         \* every event the task has sent on tx
    mark,          \* Len(trace[t]) when this iteration began
    wsAttempts,    \* calls of connect_async
    tcpAttempts,   \* calls of TcpStream::connect
    ioCount        \* reads, writes, flushes and sends on the two transports

uiVars == << ws_url, is_running, room_number, status_msg, logs, proxy_abort, spawned >>
ioVars == << ws_ended, ops, data, tcp_buffer, yielded, wrote, written, failure, carry, sent,
            wsAttempts, tcpAttempts, ioCount >>
vars == << ws_url, is_running, room_number, status_msg, logs, rx_event, proxy_abort,
           spawned, pc, aborted, url, ws_ended, ops, data, tcp_buffer, yielded,
           wrote, written, failure, carry, sent, trace, mark, wsAttempts, tcpAttempts,
           ioCount >>

Urls == {"valid", "malformed"}

\* where a task awaits
Parked == {"start", "ws_connect", "tcp_connect", "select", "write_len",
           "write_data", "flush", "ws_send"}

\* a spawned task that neither returned nor was dropped
Live(t) == pc[t] \in Parked \cup {"iter_end"}

\* impl Default for TrouDeVerApp; no task exists yet
Init ==
    /\ ws_url = "valid"
    /\ is_running = FALSE
    /\ room_number = "none"
    /\ status_msg = "Ready"
    /\ logs = <<>>
    /\ rx_event = <<>>
    /\ proxy_abort = 0
    /\ spawned = 0
    /\ pc = [t \in Sessions |-> "unspawned"]
    /\ aborted = [t \in Sessions |-> "no"]
    /\ url = [t \in Sessions |-> "valid"]
    /\ ws_ended = [t \in Sessions |-> FALSE]
    /\ ops = [t \in Sessions |-> 0]
    /\ data = [t \in Sessions |-> <<>>]
    /\ tcp_buffer = [t \in Sessions |-> <<>>]
    /\ yielded = [t \in Sessions |-> "nothing"]
    /\ wrote = [t \in Sessions |-> 0]
    /\ written = [t \in Sessions |-> <<>>]
    /\ failure = [t \in Sessions |-> "none"]
    /\ carry = [t \in Sessions |-> <<>>]
    /\ sent = [t \in Sessions |-> <<>>]
    /\ trace = [t \in Sessions |-> <<>>]
    /\ mark = [t \in Sessions |-> 0]
    /\ wsAttempts = [t \in Sessions |-> 0]
    /\ tcpAttempts = [t \in Sessions |-> 0]
    /\ ioCount = [t \in Sessions |-> 0]

(***************************************************************************)
(* The tunnel task: tokio::spawn(async move { run_proxy_logic(..).await;   *)
(* tx.send(Stopped) }).                                                    *)
(***************************************************************************)
\* a runtime that goes on polling a task after abort()
RunnableAlways(t) == TRUE

\* the task may be polled: it is not aborted, or abort() found it in the
\* middle of a poll, which runs on to the next .await
Runnable(t) == aborted[t] # "parked"

\* tx.send(e) for each e of evs, in order, by task t, in one poll; the poll
\* an abort() came across ends here
TxSend(t, evs) ==
    /\ rx_event' = rx_event \o
          [i \in 1..Len(evs) |-> [type |-> evs[i].type, arg |-> evs[i].arg, sid |-> t]]
    /\ trace' = [trace EXCEPT ![t] = @ \o evs]
    /\ aborted' = [aborted EXCEPT ![t] = IF @ = "running" THEN "parked" ELSE @]

\* an iteration of the loop begins: one of the two futures resolved to what
Begins(t, what) ==
    /\ yielded' = [yielded EXCEPT ![t] = what]
    /\ mark' = [mark EXCEPT ![t] = Len(trace[t])]

\* the locals of the loop: data, data_chunk, the end of ws_read, the iterations
Locals(t, d, chunk, ended, n) ==
    /\ data' = [data EXCEPT ![t] = d]
    /\ tcp_buffer' = [tcp_buffer EXCEPT ![t] = chunk]
    /\ ws_ended' = [ws_ended EXCEPT ![t] = ended]
    /\ ops' = [ops EXCEPT ![t] = n]

\* the future is over and its locals are dropped
DropLocals(t) ==
    /\ Locals(t, <<>>, <<>>, FALSE, 0)
    /\ wrote' = [wrote EXCEPT ![t] = 0]

KeepLocals == UNCHANGED << data, tcp_buffer, ws_ended, ops, wrote >>

\* run_proxy_logic returns and the spawned block sends no Stopped
ReturnsSilent(t, evs) ==
    /\ TxSend(t, evs)
    /\ pc' = [pc EXCEPT ![t] = "done"]
    /\ DropLocals(t)

\* run_proxy_logic returns after sending evs; the spawned block sends Stopped
\* and the task ends
Returns(t, evs) ==
    /\ TxSend(t, evs \o << Ev("Stopped", "") >>)
    /\ pc' = [pc EXCEPT ![t] = "done"]
    /\ DropLocals(t)

\* the task sends evs and goes on to where: the next .await, or the end of
\* the iteration
ParksAt(t, where, evs) ==
    /\ TxSend(t, evs)
    /\ pc' = [pc EXCEPT ![t] = where]

\* a parse that accepts every URL
UrlParseOkAlways(u) == TRUE

\* Url::parse(&ws_url).is_ok()
UrlParseOk(u) == u = "valid"

\* first poll: up to connect_async(..).await
PollStart(t) ==
    /\ pc[t] = "start"
    /\ Runnable(t)
    /\ IF UrlParseOk(url[t])
       THEN /\ ParksAt(t, "ws_connect", << Ev("Log", "Connecting to WebSocket") >>)
            /\ wsAttempts' = [wsAttempts EXCEPT ![t] = @ + 1]
            /\ KeepLocals
       ELSE /\ Returns(t, << Ev("Log", "Connecting to WebSocket"),
                             Ev("Log", "Invalid URL") >>)
            /\ UNCHANGED wsAttempts
    /\ UNCHANGED << yielded, mark, uiVars, url, carry, written, failure, sent, tcpAttempts,
                    ioCount >>

\* a connector that goes on to the TCP connection after a failed handshake
WsConnectDoneEager(t, ok) ==
    /\ pc[t] = "ws_connect"
    /\ Runnable(t)
    /\ ParksAt(t, "tcp_connect",
               IF ok THEN << Ev("Log", "[OK] WebSocket Connected"),
                             Ev("Log", "Connecting to TCP Server") >>
                     ELSE << Ev("Log", "WebSocket connection failed"),
                             Ev("Log", "Connecting to TCP Server") >>)
    /\ tcpAttempts' = [tcpAttempts EXCEPT ![t] = @ + 1]
    /\ KeepLocals
    /\ UNCHANGED << yielded, mark, uiVars, url, carry, written, failure, sent, wsAttempts,
                    ioCount >>

\* connect_async resolves; on Ok up to TcpStream::connect(..).await
WsConnectDone(t, ok) ==
    /\ pc[t] = "ws_connect"
    /\ Runnable(t)
    /\ IF ok
       THEN /\ ParksAt(t, "tcp_connect", << Ev("Log", "[OK] WebSocket Connected"),
                                            Ev("Log", "Connecting to TCP Server") >>)
            /\ tcpAttempts' = [tcpAttempts EXCEPT ![t] = @ + 1]
            /\ KeepLocals
       ELSE /\ Returns(t, << Ev("Log", "WebSocket connection failed") >>)
            /\ UNCHANGED tcpAttempts
    /\ UNCHANGED << yielded, mark, uiVars, url, carry, written, failure, sent, wsAttempts,
                    ioCount >>

\* TcpStream::connect resolves; on Ok up to the first select!
TcpConnectDone(t, res) ==
    /\ pc[t] = "tcp_connect"
    /\ Runnable(t)
    /\ \/ /\ res = "ok"
          /\ ParksAt(t, "select", << Ev("Log", "[OK] TCP Connected. Tunnel active."),
                                     Ev("Status", "Connected (Active)") >>)
          /\ KeepLocals
       \/ /\ res = "nodelay_err"
          /\ ParksAt(t, "select", << Ev("Log", "Warning: Failed to set TCP_NODELAY"),
                                     Ev("Log", "[OK] TCP Connected. Tunnel active."),
                                     Ev("Status", "Connected (Active)") >>)
          /\ KeepLocals
       \/ /\ res = "err"
          /\ Returns(t, << Ev("Log", "TCP connection failed") >>)
    /\ UNCHANGED << yielded, mark, uiVars, url, carry, written, failure, sent, wsAttempts,
                    tcpAttempts, ioCount >>

(***************************************************************************)
(* The select! loop.  An iteration begins when one of the two futures,     *)
(* ws_read.next() or tcp_read.read(..), resolves.                          *)
(***************************************************************************)
\* message.into_data(): the payload of a message of any kind
IntoData(message) == message.payload

\* the payload is framed even when it is empty
FramedEmptyToo(payload) == TRUE

\* `if !data.is_empty()`: the payload is framed
Framed(payload) == ~IsEmpty(payload)

\* the operation what of this iteration failed
Fails(t, what) == failure' = [failure EXCEPT ![t] = what]

\* bytes go out on the TCP stream
Puts(t, bytes) == written' = [written EXCEPT ![t] = @ \o bytes]

\* WebSocket -> TCP: ws_read.next() yields Some(Ok(message))
WsRecv(t, message) ==
    /\ pc[t] = "select"
    /\ Runnable(t)
    /\ Begins(t, "message")
    /\ ~ws_ended[t]
    /\ ioCount' = [ioCount EXCEPT ![t] = @ + 1]
    /\ IF Framed(IntoData(message))
       THEN /\ ParksAt(t, "write_len", <<>>)
            /\ Locals(t, IntoData(message), <<>>, ws_ended[t], ops[t])
       ELSE /\ ParksAt(t, "iter_end", <<>>)
            /\ Locals(t, IntoData(message), <<>>, ws_ended[t], ops[t])
    /\ UNCHANGED << uiVars, url, carry, wrote, written, failure, sent, wsAttempts,
                    tcpAttempts >>

\* ws_read.next() yields Some(Err(e))
WsRecvErr(t) ==
    /\ pc[t] = "select"
    /\ Runnable(t)
    /\ Begins(t, "ws_error")
    /\ ~ws_ended[t]
    /\ Fails(t, "ws_read")
    /\ Returns(t, << Ev("Log", "WebSocket read error") >>)
    /\ ioCount' = [ioCount EXCEPT ![t] = @ + 1]
    /\ UNCHANGED << uiVars, url, carry, written, sent, wsAttempts, tcpAttempts >>

\* a session that ends when ws_read.next() yields None
WsEndReturns(t) ==
    /\ pc[t] = "select"
    /\ Runnable(t)
    /\ ~ws_ended[t]
    /\ Returns(t, <<>>)
    /\ UNCHANGED << yielded, mark, uiVars, url, carry, written, failure, sent, wsAttempts,
                    tcpAttempts, ioCount >>

\* ws_read.next() yields None: the pattern Some(msg) fails, the branch is
\* disabled and select! goes on waiting for the read
WsEnd(t) ==
    /\ pc[t] = "select"
    /\ Runnable(t)
    /\ ~ws_ended[t]
    /\ Locals(t, data[t], tcp_buffer[t], TRUE, ops[t])
    /\ ParksAt(t, "select", <<>>)
    /\ UNCHANGED << yielded, mark, uiVars, url, carry, wrote, written, failure, sent,
                    wsAttempts, tcpAttempts, ioCount >>

\* the first k elements of s
Prefix(s, k) == SubSeq(s, 1, k)

\* the elements of s after the first k
Rest(s, k) == SubSeq(s, k + 1, Len(s))

\* the buffer of the write_all the task is parked at
PendingWrite(t) ==
    IF pc[t] = "write_len" THEN LenBytes(data[t])
    ELSE IF pc[t] = "write_data" THEN data[t]
    ELSE <<>>

\* a poll of the write_all in flight writes on, up to element k of its buffer,
\* and is pending again
WriteProgress(t, k) ==
    /\ pc[t] \in {"write_len", "write_data"}
    /\ Runnable(t)
    /\ wrote[t] < k
    /\ k < Len(PendingWrite(t))
    /\ Puts(t, SubSeq(PendingWrite(t), wrote[t] + 1, k))
    /\ wrote' = [wrote EXCEPT ![t] = k]
    /\ ParksAt(t, pc[t], <<>>)
    /\ UNCHANGED << data, tcp_buffer, ws_ended, ops, yielded, mark, uiVars, url, carry, failure,
                    sent, wsAttempts, tcpAttempts, ioCount >>

\* tcp_write.write_all(&len_bytes) resolves
WriteLenDone(t, ok) ==
    /\ pc[t] = "write_len"
    /\ Runnable(t)
    /\ ioCount' = [ioCount EXCEPT ![t] = @ + 1]
    /\ IF ok
       THEN /\ Puts(t, Rest(LenBytes(data[t]), wrote[t]))
            /\ wrote' = [wrote EXCEPT ![t] = 0]
            /\ ParksAt(t, "write_data", <<>>)
            /\ UNCHANGED << data, tcp_buffer, ws_ended, ops, failure >>
       ELSE /\ Fails(t, "write_len")
            /\ Returns(t, << Ev("Log", "TCP write len error") >>)
            /\ UNCHANGED written
    /\ UNCHANGED << yielded, mark, uiVars, url, carry, sent, wsAttempts, tcpAttempts >>

\* a payload write whose failure is logged and the loop goes on
WriteDataDoneGoesOn(t, ok) ==
    /\ pc[t] = "write_data"
    /\ Runnable(t)
    /\ ioCount' = [ioCount EXCEPT ![t] = @ + 1]
    /\ IF ok
       THEN /\ Puts(t, Rest(data[t], wrote[t]))
            /\ wrote' = [wrote EXCEPT ![t] = 0]
            /\ ParksAt(t, "flush", <<>>)
            /\ UNCHANGED << data, tcp_buffer, ws_ended, ops, failure >>
       ELSE /\ Fails(t, "write_data")
            /\ wrote' = [wrote EXCEPT ![t] = 0]
            /\ ParksAt(t, "iter_end", << Ev("Log", "TCP write data error") >>)
            /\ UNCHANGED << data, tcp_buffer, ws_ended, ops, written >>
    /\ UNCHANGED << yielded, mark, uiVars, url, carry, sent, wsAttempts, tcpAttempts >>

\* tcp_write.write_all(&data) resolves
WriteDataDone(t, ok) ==
    /\ pc[t] = "write_data"
    /\ Runnable(t)
    /\ ioCount' = [ioCount EXCEPT ![t] = @ + 1]
    /\ IF ok
       THEN /\ Puts(t, Rest(data[t], wrote[t]))
            /\ wrote' = [wrote EXCEPT ![t] = 0]
            /\ ParksAt(t, "flush", <<>>)
            /\ UNCHANGED << data, tcp_buffer, ws_ended, ops, failure >>
       ELSE /\ Fails(t, "write_data")
            /\ Returns(t, << Ev("Log", "TCP write data error") >>)
            /\ UNCHANGED written
    /\ UNCHANGED << yielded, mark, uiVars, url, carry, sent, wsAttempts, tcpAttempts >>

\* tcp_write.flush() resolves; its result is dropped
FlushDone(t, ok) ==
    /\ pc[t] = "flush"
    /\ Runnable(t)
    /\ ioCount' = [ioCount EXCEPT ![t] = @ + 1]
    /\ IF ok THEN UNCHANGED failure ELSE Fails(t, "flush")
    /\ KeepLocals
    /\ ParksAt(t, "iter_end", <<>>)
    /\ UNCHANGED << yielded, mark, uiVars, url, carry, written, sent, wsAttempts,
                    tcpAttempts >>

\* TCP -> WebSocket: the read yields Ok(0)
TcpReadClosed(t) ==
    /\ pc[t] = "select"
    /\ Runnable(t)
    /\ Begins(t, "eof")
    /\ Returns(t, << Ev("Log", "TCP server closed connection") >>)
    /\ ioCount' = [ioCount EXCEPT ![t] = @ + 1]
    /\ UNCHANGED << uiVars, url, carry, written, failure, sent, wsAttempts, tcpAttempts >>

\* the read yields Err(e)
TcpReadErr(t) ==
    /\ pc[t] = "select"
    /\ Runnable(t)
    /\ Begins(t, "tcp_error")
    /\ Fails(t, "tcp_read")
    /\ Returns(t, << Ev("Log", "TCP read error") >>)
    /\ ioCount' = [ioCount EXCEPT ![t] = @ + 1]
    /\ UNCHANGED << uiVars, url, carry, written, sent, wsAttempts, tcpAttempts >>

\* a forward that loses the last byte of the chunk
ForwardedTruncated(chunk) ==
    << ToWsMessage(Prefix(chunk, Len(chunk) - 1)) >>

\* the messages handed to ws_write.send for a chunk that is forwarded
Forwarded(chunk) == << ToWsMessage(chunk) >>

\* a sniffer that puts what the read before left unfinished in front of the chunk
SniffedJoined(t, chunk) == Sniff(carry[t] \o chunk)

\* the sniffing of the chunk task t read: the stream is built from data_chunk
\* alone
Sniffed(t, chunk) == Sniff(chunk)

\* the read yields Ok(n), n > 0, with chunk in tcp_buffer[0..n]
TcpRead(t, chunk) ==
    /\ pc[t] = "select"
    /\ Runnable(t)
    /\ Begins(t, "chunk")
    /\ IF Sniffed(t, chunk).forward_message
       THEN /\ sent' = [sent EXCEPT ![t] = Forwarded(chunk)]
            /\ ioCount' = [ioCount EXCEPT ![t] = @ + 2]
            /\ ParksAt(t, "ws_send", Sniffed(t, chunk).events)
            /\ Locals(t, <<>>, chunk, ws_ended[t], ops[t])
       ELSE /\ sent' = [sent EXCEPT ![t] = <<>>]
            /\ ioCount' = [ioCount EXCEPT ![t] = @ + 1]
            /\ ParksAt(t, "iter_end", Sniffed(t, chunk).events)
            /\ Locals(t, <<>>, chunk, ws_ended[t], ops[t])
    /\ UNCHANGED << uiVars, url, carry, wrote, written, failure, wsAttempts, tcpAttempts >>

\* ws_write.send(ws_message) resolves; ws_write.flush() builds a future that
\* is dropped unpolled
WsSendDone(t, ok) ==
    /\ pc[t] = "ws_send"
    /\ Runnable(t)
    /\ IF ok
       THEN /\ ParksAt(t, "iter_end", <<>>)
            /\ KeepLocals
            /\ UNCHANGED failure
       ELSE /\ Fails(t, "ws_send")
            /\ Returns(t, << Ev("Log", "WebSocket send error") >>)
    /\ UNCHANGED << yielded, mark, uiVars, url, carry, written, sent, wsAttempts,
                    tcpAttempts, ioCount >>

\* the end of the arm taken: its locals are dropped and the loop comes back
\* to select!, in the same poll
LoopAgain(t) ==
    /\ pc[t] = "iter_end"
    /\ pc' = [pc EXCEPT ![t] = "select"]
    /\ Locals(t, <<>>, <<>>, ws_ended[t], ops[t] + 1)
    /\ yielded' = [yielded EXCEPT ![t] = "nothing"]
    /\ mark' = [mark EXCEPT ![t] = Len(trace[t])]
    /\ written' = [written EXCEPT ![t] = <<>>]
    /\ sent' = [sent EXCEPT ![t] = <<>>]
    /\ failure' = [failure EXCEPT ![t] = "none"]
    /\ carry' = [carry EXCEPT ![t] = IF sent[t] # <<>> THEN Unfinished(tcp_buffer[t]) ELSE <<>>]
    /\ UNCHANGED << uiVars, rx_event, trace, aborted, url, wrote, wsAttempts,
                    tcpAttempts, ioCount >>

\* the runtime drops an aborted task at the .await it is parked at
Cancel(t) ==
    /\ pc[t] \in Parked
    /\ aborted[t] # "no"
    /\ pc' = [pc EXCEPT ![t] = "cancelled"]
    /\ DropLocals(t)
    /\ UNCHANGED << yielded, mark, uiVars, rx_event, trace, aborted, url, carry, written,
                    failure, sent, wsAttempts, tcpAttempts, ioCount >>

(***************************************************************************)
(* The front end: eframe calls update once per frame.                      *)
(***************************************************************************)
\* the length logs is cut back to after a Log event
LogLimit == 50

\* format!("[{}] {}", time, msg); the time of day is not modelled
LogLine(msg) == "[time] " \o msg

\* one arm of the match in update's drain, on the front end's fields st
ApplyEvent(st, event) ==
    IF event.type = "Log"
    THEN LET pushed == Append(st.logs, LogLine(event.arg))
         IN  [st EXCEPT !.logs = IF Len(pushed) > LogLimit THEN Tail(pushed) ELSE pushed]
    ELSE IF event.type = "RoomCode"
    THEN [st EXCEPT !.room_number = event.arg]
    ELSE IF event.type = "Status"
    THEN [st EXCEPT !.status_msg = event.arg]
    ELSE [st EXCEPT !.is_running = FALSE, !.status_msg = "Stopped", !.proxy_abort = 0]

\* while let Ok(event) = self.rx_event.try_recv() { match event { .. } }
RECURSIVE Drain(_, _)
Drain(queue, st) ==
    IF queue = <<>> THEN st
    ELSE Drain(Tail(queue), ApplyEvent(st, Head(queue)))

\* the front end's fields once update has drained the channel
Drained ==
    Drain(rx_event, [is_running |-> is_running, room_number |-> room_number,
                     status_msg |-> status_msg, logs |-> logs,
                     proxy_abort |-> proxy_abort])

\* start_proxy, on the fields st, with the URL field holding typed
StartProxy(st, typed) ==
    /\ spawned < MaxSessions
    /\ ws_url' = typed
    /\ is_running' = TRUE
    /\ status_msg' = "Starting..."
    /\ logs' = <<>>
    /\ room_number' = st.room_number
    /\ spawned' = spawned + 1
    /\ pc' = [pc EXCEPT ![spawned + 1] = "start"]
    /\ url' = [url EXCEPT ![spawned + 1] = typed]
    /\ proxy_abort' = spawned + 1
    /\ UNCHANGED aborted

\* stop_proxy, on the fields st; how is how handle.abort() finds a live task
StopProxy(st, how) ==
    /\ IF st.proxy_abort # 0
       THEN /\ aborted' = IF Live(st.proxy_abort)
                          THEN [aborted EXCEPT ![st.proxy_abort] = how]
                          ELSE aborted
            /\ logs' = Append(st.logs, "Stopped by user.")
       ELSE /\ aborted' = aborted
            /\ logs' = st.logs
    /\ proxy_abort' = 0
    /\ is_running' = FALSE
    /\ status_msg' = "Stopping..."
    /\ room_number' = st.room_number
    /\ UNCHANGED << ws_url, spawned, pc, url >>

\* one frame: the drain, then the button the user clicked, if any
Update(click, typed, how) ==
    /\ rx_event' = <<>>
    /\ \/ /\ click = "none"
          /\ is_running' = Drained.is_running
          /\ room_number' = Drained.room_number
          /\ status_msg' = Drained.status_msg
          /\ logs' = Drained.logs
          /\ proxy_abort' = Drained.proxy_abort
          /\ UNCHANGED << ws_url, spawned, pc, url, aborted >>
       \/ /\ click = "connect"
          /\ ~Drained.is_running
          /\ StartProxy(Drained, typed)
       \/ /\ click = "stop"
          /\ Drained.is_running
          /\ StopProxy(Drained, how)
    /\ UNCHANGED << trace, mark, ioVars >>

(***************************************************************************)
(* Specifications.                                                         *)
(***************************************************************************)
Kinds == {"Text", "Binary"}

\* one poll of task t, the transports delivering payloads and chunks until
\* the task has run max iterations, a write_all pending after cuts elements
TaskStep(t, payloads, chunks, cuts, max) ==
    \/ PollStart(t)
    \/ \E ok \in BOOLEAN : WsConnectDone(t, ok)
    \/ \E res \in {"ok", "nodelay_err", "err"} : TcpConnectDone(t, res)
    \/ \E kind \in Kinds, payload \in payloads :
          ops[t] < max /\ WsRecv(t, [kind |-> kind, payload |-> payload])
    \/ WsRecvErr(t)
    \/ WsEnd(t)
    \/ \E k \in cuts : WriteProgress(t, k)
    \/ \E ok \in BOOLEAN : WriteLenDone(t, ok)
    \/ \E ok \in BOOLEAN : WriteDataDone(t, ok)
    \/ \E ok \in BOOLEAN : FlushDone(t, ok)
    \/ TcpReadClosed(t)
    \/ TcpReadErr(t)
    \/ \E chunk \in chunks : ops[t] < max /\ TcpRead(t, chunk)
    \/ \E ok \in BOOLEAN : WsSendDone(t, ok)
    \/ LoopAgain(t)

\* one frame of the front end
Frame ==
    \E click \in {"none", "connect", "stop"}, typed \in Urls, how \in {"parked", "running"} :
        Update(click, typed, how)

\* Spec: the front end and the tasks it spawns, the transports delivering
\* a few payloads and chunks
SomePayloads == { <<104>> }
SomeChunks == { <<"{", "I", "A", "}">>, <<"X">> }
SomeCuts == {1}

Next ==
    \/ Frame
    \/ \E t \in Sessions :
          TaskStep(t, SomePayloads, SomeChunks, SomeCuts, MaxOps)
    \/ \E t \in Sessions : Cancel(t)

Spec == Init /\ [][Next]_vars

\* SpecSession: one session from Connect on, never stopped, through one
\* iteration of the loop and the end of the session after it, the transports
\* delivering every payload and every chunk of the bounds
PayloadElems == {104, Blk}

RECURSIVE PayloadsOf(_)
PayloadsOf(n) ==
    IF n = 0 THEN { <<>> }
    ELSE LET shorter == PayloadsOf(n - 1)
         IN  shorter \cup { Append(p, e) : p \in shorter, e \in PayloadElems }

Payloads == PayloadsOf(MaxPayloadLen)

Connect ==
    /\ spawned = 0
    /\ \E typed \in Urls : Update("connect", typed, "parked")

NextSession ==
    \/ Connect
    \/ TaskStep(1, Payloads, Chunks, 1..MaxPayloadLen, 1)

SpecSession == Init /\ [][NextSession]_vars

\* a frame in which no button is clicked
Poll == Update("none", ws_url, "parked")

\* a frame in which [ STOP ] is clicked
Stop == \E how \in {"parked", "running"} : Update("stop", ws_url, how)

\* SpecTunnel: one session that the user may stop, over several iterations,
\* the transports delivering a few payloads and the pieces of a record that
\* two reads share
FewPayloads == { <<>>, <<104>>, <<104, 105>> }
SplitChunks == { <<"{", "I">>, <<"A", "}">>, <<"{", "I", "A", "}">>, <<"{", "X", "}">> }
FewCuts == {1, 2}

NextTunnel ==
    \/ Connect
    \/ Poll
    \/ Stop
    \/ TaskStep(1, FewPayloads, SplitChunks, FewCuts, MaxRounds)
    \/ Cancel(1)

SpecTunnel == Init /\ [][NextTunnel]_vars

\* n copies of seg, one after the other
RECURSIVE Repeat(_, _)
Repeat(seg, n) == IF n = 0 THEN <<>> ELSE seg \o Repeat(seg, n - 1)

\* SpecLogs: one session that the user may stop, the TCP server sending
\* chunks of control records, enough of them to fill the log view; the
\* frames keep up with the task, which is not polled while more than
\* MaxPending events wait in the channel
RoomsPerChunk == 4
MaxLogRounds == 12
MaxPending == 4
ManyRooms == Repeat(<<"{", "I", "A", "}">>, RoomsPerChunk)
LogChunks == { ManyRooms, <<"{", "X", "}">> }

NextLogs ==
    \/ Connect
    \/ Poll
    \/ Stop
    \/ Len(rx_event) <= MaxPending
          /\ TaskStep(1, SomePayloads, LogChunks, SomeCuts, MaxLogRounds)
    \/ Cancel(1)

SpecLogs == Init /\ [][NextLogs]_vars

(***************************************************************************)
(* Properties.                                                             *)
(***************************************************************************)
Stopped == Ev("Stopped", "")

\* how many events of this type the sequence holds
CountType(evs, type) == Cardinality({ i \in 1..Len(evs) : evs[i].type = type })

\* the session is over: its future returned or was dropped
Ended(t) == pc[t] \in {"done", "cancelled"}

\* the events task t sent since its current iteration began
IterEvents(t) == SubSeq(trace[t], mark[t] + 1, Len(trace[t]))

\* C1 (as claimed): every session that has ended, by a connection failure, an
\* I/O error, a peer close or an abort by stop_proxy, has sent exactly one
\* Stopped event, and it is the last event the session sent.
C1_OneStoppedPerSession ==
    \A t \in Sessions :
        Ended(t) =>
            /\ CountType(trace[t], "Stopped") = 1
            /\ trace[t][Len(trace[t])] = Stopped

\* the positions where the records begin that the chunk starts with: the
\* valid records that follow one another from position p on
RECURSIVE LeadingFrom(_, _)
LeadingFrom(chunk, p) ==
    IF p <= Len(chunk) /\ ParseValue(chunk, p).ok
    THEN {p} \cup LeadingFrom(chunk, ParseValue(chunk, p).next)
    ELSE {}

\* a valid control record begins at some position of the chunk
ControlAnywhere(chunk) ==
    \E p \in 1..Len(chunk) : ParseValue(chunk, p).ok /\ ParseValue(chunk, p).internal

\* a control record is among the valid records the chunk starts with
ControlLeading(chunk) ==
    \E p \in LeadingFrom(chunk, 1) : ParseValue(chunk, p).internal

\* C2 (as claimed): a chunk that holds a valid control record anywhere in it
\* has no message sent to the WebSocket.
C2_ControlAnywhereSuppresses ==
    \A t \in Sessions :
        (yielded[t] = "chunk" /\ ControlAnywhere(tcp_buffer[t])) => sent[t] = <<>>

\* C2 (amended): a chunk that holds a control record among the valid records
\* it starts with, whatever else these records or the bytes after them are,
\* has no message sent to the WebSocket, and the task never parks at a send.
C2_ControlLeadingSuppresses ==
    \A t \in Sessions :
        (yielded[t] = "chunk" /\ ControlLeading(tcp_buffer[t])) =>
            sent[t] = <<>> /\ pc[t] # "ws_send"

\* C2 witness: the chunk {"internal":true}{"x":1} was read and nothing sent
C2_Witness ==
    /\ yielded[1] = "chunk"
    /\ tcp_buffer[1] = <<"{", "I", "}", "{", "X", "}">>
    /\ sent[1] = <<>>
    /\ pc[1] = "iter_end"

\* C3: a non-empty chunk in which the sniffing finds no control record has
\* exactly one message handed to ws_write.send, and the payload of that
\* message is the chunk, byte for byte.
C3_PassThrough ==
    \A t \in Sessions :
        (yielded[t] = "chunk" /\ tcp_buffer[t] # <<>> /\ ~ControlLeading(tcp_buffer[t])) =>
            /\ Len(sent[t]) = 1
            /\ sent[t][1].payload = tcp_buffer[t]

\* C3 witness: a chunk with a stray byte before a control record went out whole
C3_Witness ==
    /\ yielded[1] = "chunk"
    /\ tcp_buffer[1] = <<"#", "{", "I", "}">>
    /\ Len(sent[1]) = 1
    /\ sent[1][1].payload = <<"#", "{", "I", "}">>
    /\ pc[1] = "iter_end"

\* the u32 four big-endian bytes stand for, as the two limbs of a length
U32FromBe(bytes) ==
    [hi |-> bytes[1] \div 64,
     lo |-> (bytes[1] % 64) * (ByteBase * ByteBase * ByteBase)
            + bytes[2] * (ByteBase * ByteBase) + bytes[3] * ByteBase + bytes[4]]

\* the decoding of a frame: the header, then as many bytes as it counts
DecodeFrame(stream) ==
    LET n == U32FromBe(Prefix(stream, 4))
        body == SubSeq(stream, 5, Len(stream))
        ks == { k \in 0..Len(body) : DataLen(Prefix(body, k)) = n }
    IN  IF Len(stream) < 4 \/ ks = {}
        THEN [ok |-> FALSE, payload |-> <<>>]
        ELSE [ok |-> TRUE, payload |-> Prefix(body, CHOOSE k \in ks : TRUE)]

\* C4 (as claimed): once the header and the payload of a non-empty message
\* are written, the bytes on the stream are a 4-byte big-endian header equal
\* to the payload's length, followed by the payload, and decoding them gives
\* the payload back, for payloads of every length.
C4_FramingRoundTrip ==
    \A t \in Sessions :
        pc[t] = "flush" =>
            /\ Len(written[t]) >= 4
            /\ U32FromBe(Prefix(written[t], 4)) = DataLen(data[t])
            /\ SubSeq(written[t], 5, Len(written[t])) = data[t]
            /\ DecodeFrame(written[t]) = [ok |-> TRUE, payload |-> data[t]]

\* C5: a message with an empty payload has nothing written to the TCP stream,
\* neither header nor payload, no write or flush is begun, and the session
\* stays in the loop: the iteration is over and the loop goes back to select!.
C5_EmptyPayloadDropped ==
    \A t \in Sessions :
        (yielded[t] = "message" /\ Live(t) /\ IsEmpty(data[t])) =>
            /\ written[t] = <<>>
            /\ pc[t] = "iter_end"

\* C5 witness: an empty message was received and the iteration is over
C5_Witness ==
    /\ yielded[1] = "message"
    /\ IsEmpty(data[1])
    /\ pc[1] = "iter_end"
    /\ written[1] = <<>>

\* the RoomCode and Log events of the records the chunk starts with, from
\* position p on: one pair for each record that has the "internal" marker
\* and a string "room", in the order of the records
RECURSIVE RoomEventsFrom(_, _)
RoomEventsFrom(chunk, p) ==
    IF p <= Len(chunk) /\ ParseValue(chunk, p).ok
    THEN LET v == ParseValue(chunk, p)
         IN  (IF v.internal /\ v.room \in {"A", "B"}
              THEN << Ev("RoomCode", v.room), Ev("Log", "Room ID: " \o v.room) >>
              ELSE <<>>)
             \o RoomEventsFrom(chunk, v.next)
    ELSE <<>>

HasEvent(t, e) == \E i \in 1..Len(trace[t]) : trace[t][i] = e

\* C7: connect_async is called at most once and TcpStream::connect at most
\* once per session, and TcpStream::connect only after connect_async has
\* succeeded.
C7_ConnectionOrder ==
    \A t \in Sessions :
        /\ wsAttempts[t] <= 1
        /\ tcpAttempts[t] <= 1
        /\ tcpAttempts[t] > 0 =>
              /\ wsAttempts[t] = 1
              /\ HasEvent(t, Ev("Log", "[OK] WebSocket Connected"))
              /\ ~HasEvent(t, Ev("Log", "WebSocket connection failed"))

\* C7 witness: both connections were made
C7_Witness ==
    /\ wsAttempts[1] = 1
    /\ tcpAttempts[1] = 1
    /\ pc[1] = "select"

StartFailures == {"Invalid URL", "WebSocket connection failed", "TCP connection failed"}

\* how many Log events of the session report a start failure
FailureLogs(t) ==
    Cardinality({ i \in 1..Len(trace[t]) :
                    trace[t][i].type = "Log" /\ trace[t][i].arg \in StartFailures })

\* the session sent Status("Connected (Active)")
WasActive(t) == HasEvent(t, Ev("Status", "Connected (Active)"))

\* the failure a session that never became active ended on
FailureOf(t) ==
    IF wsAttempts[t] = 0 THEN "Invalid URL"
    ELSE IF tcpAttempts[t] = 0 THEN "WebSocket connection failed"
    ELSE "TCP connection failed"

\* C8: a session that returned without becoming active sent exactly one Log
\* that reports a start failure, the one of the step that failed, just before
\* it returned; a session with a malformed URL never calls connect_async; and
\* a session that reported a start failure never sent Status("Connected
\* (Active)") and did no read, write or send on either transport.
C8_StartFailure ==
    \A t \in Sessions :
        /\ (pc[t] = "done" /\ ~WasActive(t)) =>
              /\ Len(trace[t]) >= 2
              /\ trace[t][Len(trace[t])] = Stopped
              /\ trace[t][Len(trace[t]) - 1] = Ev("Log", FailureOf(t))
              /\ FailureLogs(t) = 1
        /\ (pc[t] # "unspawned" /\ url[t] = "malformed") => wsAttempts[t] = 0
        /\ FailureLogs(t) > 0 =>
              /\ pc[t] = "done"
              /\ ~WasActive(t)
              /\ ioCount[t] = 0
              /\ written[t] = <<>>
              /\ sent[t] = <<>>

\* C8 witness: the TCP connection failed
C8_Witness ==
    /\ pc[1] = "done"
    /\ HasEvent(1, Ev("Log", "TCP connection failed"))
    /\ ~WasActive(1)

\* C9: once a read has yielded zero bytes the session has sent one Log and
\* then its one Stopped in that iteration, has handed nothing to either
\* transport in it, is over, and from then on does no read, write or send.
C9_PeerClose ==
    /\ [](\A t \in Sessions :
            yielded[t] = "eof" =>
                /\ pc[t] = "done"
                /\ IterEvents(t) = << Ev("Log", "TCP server closed connection"), Stopped >>
                /\ CountType(trace[t], "Stopped") = 1
                /\ written[t] = <<>>
                /\ sent[t] = <<>>)
    /\ [][\A t \in Sessions :
            yielded[t] = "eof" =>
                /\ pc'[t] = pc[t]
                /\ ioCount'[t] = ioCount[t]
                /\ trace'[t] = trace[t]
                /\ written'[t] = written[t]
                /\ sent'[t] = sent[t]]_vars

\* C9 witness: the peer closed
C9_Witness ==
    /\ yielded[1] = "eof"
    /\ pc[1] = "done"

\* C10 (as claimed): no two spawned tunnel tasks are live at once, a task
\* being live until it returns or the abort takes effect at the .await it is
\* parked at.
C10_AtMostOneLive ==
    Cardinality({ t \in Sessions : Live(t) /\ aborted[t] # "parked" }) <= 1

\* the Log a failed transport operation is reported with
FailureLog(what) ==
    IF what = "write_len" THEN "TCP write len error"
    ELSE IF what = "write_data" THEN "TCP write data error"
    ELSE IF what = "ws_read" THEN "WebSocket read error"
    ELSE IF what = "ws_send" THEN "WebSocket send error"
    ELSE IF what = "tcp_read" THEN "TCP read error"
    ELSE "flush error"

\* C11 (as claimed): a failure of the header write, of the payload write or
\* of the flush, a WebSocket read error, a WebSocket send error and a TCP read
\* error each have the session send exactly one Log in that iteration and end.
C11_EveryFailureTerminates ==
    \A t \in Sessions :
        failure[t] # "none" =>
            /\ pc[t] = "done"
            /\ CountType(IterEvents(t), "Log") = 1

\* what holds of the failures: a failure of the header write, of the payload
\* write, of a WebSocket read, of a WebSocket send or of a TCP read has the
\* session send the one Log that reports it, then Stopped, and end; a failure
\* of the flush sends nothing and the session goes on to the next iteration.
FailureTerminatesButFlush ==
    \A t \in Sessions :
        /\ failure[t] \in {"write_len", "write_data", "ws_read", "ws_send", "tcp_read"} =>
              /\ pc[t] = "done"
              /\ IterEvents(t) = << Ev("Log", FailureLog(failure[t])), Stopped >>
        /\ failure[t] = "flush" =>
              /\ pc[t] = "iter_end"
              /\ IterEvents(t) = <<>>

\* the payload write failed after a part of the payload went out
PayloadWriteFailed ==
    /\ failure[1] = "write_data"
    /\ pc[1] = "done"
    /\ Len(written[1]) > 4
    /\ IterEvents(1) = << Ev("Log", "TCP write data error"), Stopped >>

\* the frame of a message: the four bytes of its length, then its payload
FrameOf(payload) == LenBytes(payload) \o payload

\* a is the start of b
IsPrefix(a, b) == Len(a) <= Len(b) /\ a = Prefix(b, Len(a))

\* the awaits of the WebSocket -> TCP branch that write the frame
Writing == {"write_len", "write_data"}

\* what a live session has written in its current iteration: nothing unless
\* the iteration frames a message, then the start of that message's frame, as
\* far as the writes went, and the whole frame once the payload write is over;
\* from the header write to the flush nothing was read from the TCP stream
\* and nothing was sent on the WebSocket
FrameInOrder(t) ==
    /\ IsPrefix(written[t], FrameOf(data[t]))
    /\ written[t] # <<>> => yielded[t] = "message" /\ ~IsEmpty(data[t])
    /\ pc[t] = "write_len" => written[t] = Prefix(LenBytes(data[t]), wrote[t])
    /\ pc[t] = "write_data" => written[t] = LenBytes(data[t]) \o Prefix(data[t], wrote[t])
    /\ pc[t] = "flush" => written[t] = FrameOf(data[t])
    /\ pc[t] \in {"select", "iter_end"} => written[t] \in {<<>>, FrameOf(data[t])}
    /\ pc[t] \in Writing \cup {"flush"} =>
          /\ yielded[t] = "message"
          /\ tcp_buffer[t] = <<>>
          /\ sent[t] = <<>>

\* how the bytes written change in one step: a write extends the frame of
\* the same message, the next iteration begins only after nothing or a
\* whole frame, and a session that is over writes nothing more; while the
\* frame is written no chunk is read and no message is sent
FrameSteps(t) ==
    /\ written'[t] # written[t] =>
          \/ /\ pc[t] \in Writing
             /\ pc'[t] \in Writing \cup {"flush"}
             /\ data'[t] = data[t]
             /\ IsPrefix(written[t], written'[t])
          \/ /\ pc[t] = "iter_end"
             /\ pc'[t] = "select"
             /\ written[t] = FrameOf(data[t])
             /\ written'[t] = <<>>
    /\ Ended(t) => written'[t] = written[t] /\ Ended(t)'
    /\ pc[t] \in Writing \cup {"flush"} =>
          /\ tcp_buffer'[t] = <<>>
          /\ sent'[t] = <<>>
          /\ ioCount'[t] \in {ioCount[t], ioCount[t] + 1}

\* C12: the bytes a session writes to the TCP stream are whole frames
\* (header, then the full payload), one per iteration that frames a message,
\* and at most one last frame cut short; between the header write and the
\* end of the payload write and flush no chunk is read from the TCP stream
\* and no message is sent on the WebSocket; after a frame cut short the
\* session is over and no further frame is started.
C12_FrameAtomicity ==
    /\ [](\A t \in Sessions : Live(t) => FrameInOrder(t))
    /\ [][\A t \in Sessions : FrameSteps(t)]_vars

\* the session ended on a failed payload write, the header and a part of
\* the payload written
C12_Witness ==
    /\ pc[1] = "done"
    /\ failure[1] = "write_data"
    /\ written[1] = << 0, 0, 0, 2, 104 >>

\* abort() has taken effect on task t: the task is parked at an .await, or
\* between two iterations, and will not be polled again
Aborted(t) == aborted[t] = "parked"

\* a step in which task t touches neither transport and sends no event
Idle(t) ==
    /\ ioCount'[t] = ioCount[t]
    /\ trace'[t] = trace[t]
    /\ written'[t] \in {written[t], <<>>}
    /\ sent'[t] \in {sent[t], <<>>}
    /\ \A i \in 1..Len(rx_event') : rx_event'[i].sid = t => i <= Len(rx_event)

\* C13: once stop_proxy's abort() has reached the task at a suspension
\* point (the one it was parked at, or the next one the poll in progress
\* reaches), the task reads, writes, sends and flushes nothing more and
\* sends no event: it stays where it is until its future is dropped, and a
\* frame written in part stays written in part.
C13_HardCancellation ==
    [][\A t \in Sessions :
          /\ Aborted(t) =>
                /\ Idle(t)
                /\ pc'[t] \in {pc[t], "cancelled"} \cup
                              (IF pc[t] = "iter_end" THEN {"select"} ELSE {})
                /\ pc'[t] = "cancelled" => written'[t] = written[t]
                /\ Aborted(t)'
          /\ pc[t] = "cancelled" => Idle(t) /\ pc'[t] = "cancelled"
          /\ (aborted[t] = "running" /\ pc[t] \in Parked /\ pc'[t] # pc[t]) =>
                Aborted(t)' \/ pc'[t] = "cancelled"
      ]_vars

\* the task was dropped at the payload write, the header and a part of the
\* payload written, and Stopped was not sent
C13_Witness ==
    /\ pc[1] = "cancelled"
    /\ written[1] = << 0, 0, 0, 2, 104 >>
    /\ status_msg = "Stopping..."
    /\ CountType(trace[1], "Stopped") = 0

\* a valid control record begins at position p of the chunk
ControlAt(chunk, p) == ParseValue(chunk, p).ok /\ ParseValue(chunk, p).internal

\* the positions of the control records the sniffing examines: those of the
\* valid records that follow one another from the start of the chunk, all of
\* them before the position where the stream of values ends
Examined(chunk) == { p \in LeadingFrom(chunk, 1) : ControlAt(chunk, p) }

\* the positions of the control records at or after the position where the
\* stream of values ends
Unexamined(chunk) ==
    { p \in StopsAt(chunk, 1)..Len(chunk) : ControlAt(chunk, p) }

\* C14: the sniffing of a chunk ends at the first position where no valid
\* record begins. The control records after that position count for nothing:
\* a chunk with no control record before it is forwarded whole and has no
\* RoomCode event sent, whatever control records come after; a chunk with a
\* control record before it has no message sent.
C14_SniffStopsAtUnparseable ==
    \A t \in Sessions :
        (yielded[t] = "chunk" /\ tcp_buffer[t] # <<>>) =>
            LET chunk == tcp_buffer[t]
            IN  /\ \A p \in LeadingFrom(chunk, 1) : p < StopsAt(chunk, 1)
                /\ Examined(chunk) = {} =>
                      /\ sent[t] = << ToWsMessage(chunk) >>
                      /\ CountType(IterEvents(t), "RoomCode") = 0
                /\ Examined(chunk) # {} => sent[t] = <<>>
                /\ CountType(IterEvents(t), "RoomCode") =
                      Cardinality({ p \in Examined(chunk) :
                                      ParseValue(chunk, p).room \in {"A", "B"} })

\* C14 witness: the chunk #{"internal":true,"room":"A"}, whose control
\* record comes after a byte where no record begins, was forwarded and no
\* RoomCode was sent
C14_Witness ==
    /\ yielded[1] = "chunk"
    /\ tcp_buffer[1] = <<"#", "{", "I", "A", "}">>
    /\ Unexamined(tcp_buffer[1]) = {2}
    /\ pc[1] = "iter_end"
    /\ Len(sent[1]) = 1
    /\ CountType(trace[1], "RoomCode") = 0

\* a control record before the position where the sniffing ends suppressed
\* the chunk, which has bytes that were not parsed
SuppressedBeforeStop ==
    /\ yielded[1] = "chunk"
    /\ Examined(tcp_buffer[1]) # {}
    /\ StopsAt(tcp_buffer[1], 1) <= Len(tcp_buffer[1])
    /\ pc[1] = "iter_end"
    /\ sent[1] = <<>>

\* the read before this one was forwarded with the start of a record at its
\* end, and this chunk begins with the rest of it: put together they begin a
\* valid control record
SplitControl(t) ==
    /\ carry[t] # <<>>
    /\ ~ParseValue(tcp_buffer[t], 1).ok
    /\ ControlAt(carry[t] \o tcp_buffer[t], 1)

\* C15: what is sent for a chunk depends on the bytes of that read alone,
\* whatever the read before it left unfinished: the chunk is forwarded iff
\* no control record is among the records it starts with, and the RoomCode
\* events are those of its own records. A control record split over two
\* reads is not recognized: both chunks are forwarded, each as a message of
\* its own, and no RoomCode is sent.
C15_NoReassembly ==
    \A t \in Sessions :
        (yielded[t] = "chunk" /\ tcp_buffer[t] # <<>>) =>
            /\ sent[t] = IF Examined(tcp_buffer[t]) = {}
                         THEN << ToWsMessage(tcp_buffer[t]) >>
                         ELSE <<>>
            /\ SubSeq(IterEvents(t), 1, Len(RoomEventsFrom(tcp_buffer[t], 1)))
                  = RoomEventsFrom(tcp_buffer[t], 1)
            /\ SplitControl(t) =>
                  /\ sent[t] = << ToWsMessage(tcp_buffer[t]) >>
                  /\ CountType(IterEvents(t), "RoomCode") = 0

\* C15 witness: {"internal":true, was read and forwarded, then "room":"A"}
\* was read and forwarded, and no RoomCode was ever sent
C15_Witness ==
    /\ ops[1] = 1
    /\ carry[1] = <<"{", "I">>
    /\ tcp_buffer[1] = <<"A", "}">>
    /\ SplitControl(1)
    /\ pc[1] = "iter_end"
    /\ sent[1] = << ToWsMessage(<<"A", "}">>) >>
    /\ CountType(trace[1], "RoomCode") = 0

\* the chunk has a byte that is no UTF-8
HasInvalidByte(chunk) == \E i \in 1..Len(chunk) : chunk[i] = "U"

\* C16: the message sent for a forwarded chunk is a Text message exactly
\* when every byte of the chunk is valid UTF-8 and a Binary message
\* otherwise, and in both cases its payload is the chunk, unmodified.
C16_MessageKind ==
    \A t \in Sessions :
        (Live(t) /\ sent[t] # <<>>) =>
            /\ Len(sent[t]) = 1
            /\ sent[t][1].payload = tcp_buffer[t]
            /\ sent[t][1].kind = IF HasInvalidByte(tcp_buffer[t]) THEN "Binary" ELSE "Text"

\* C16 witness: a chunk with an invalid byte followed by a record that is
\* valid text was sent whole as one Binary message
C16_Witness ==
    /\ pc[1] = "iter_end"
    /\ tcp_buffer[1] = <<"U", "{", "X", "}">>
    /\ sent[1] = << [kind |-> "Binary", payload |-> <<"U", "{", "X", "}">>] >>

\* a chunk of valid text was sent as one Text message
SentAsText ==
    /\ pc[1] = "iter_end"
    /\ tcp_buffer[1] = <<"{", "X", "}", "#">>
    /\ sent[1] = << [kind |-> "Text", payload |-> <<"{", "X", "}", "#">>] >>

\* how a session whose WebSocket stream has ended goes on: only the TCP ->
\* WebSocket arm runs
AfterWsEnd(t) ==
    /\ Live(t)
    /\ pc[t] \in {"select", "ws_send", "iter_end"}
    /\ yielded[t] \in {"nothing", "chunk"}
    /\ written[t] = <<>>
    /\ (pc[t] = "select" /\ Runnable(t)) => ENABLED TcpRead(t, <<"{", "X", "}">>)

\* the step in which ws_read.next() yields None neither ends the session nor
\* sends an event; the select! ends the session only on a read error or a
\* zero-byte read; and a session past the end of the WebSocket stream ends
\* only by a TCP read error, a zero-byte read, a WebSocket send error or
\* cancellation
WsEndSteps(t) ==
    /\ (~ws_ended[t] /\ ws_ended'[t]) =>
          /\ pc[t] = "select"
          /\ pc'[t] = "select"
          /\ trace'[t] = trace[t]
          /\ ioCount'[t] = ioCount[t]
    /\ (pc[t] = "select" /\ pc'[t] = "done") =>
          \/ yielded'[t] = "eof"
          \/ failure'[t] \in {"ws_read", "tcp_read"}
    /\ (ws_ended[t] /\ ~ws_ended'[t]) =>
          \/ /\ pc'[t] = "done"
             /\ \/ yielded'[t] = "eof"
                \/ failure'[t] \in {"tcp_read", "ws_send"}
          \/ /\ pc'[t] = "cancelled"
             /\ aborted[t] # "no"

\* C17: when ws_read.next() yields None the session does not end: the
\* WebSocket -> TCP arm is out of the select!, the loop goes on reading the
\* TCP stream and forwarding to the WebSocket, and the session ends only by
\* a TCP read error, a zero-byte read, a WebSocket send error or
\* cancellation.
C17_WsEndKeepsSession ==
    /\ [](\A t \in Sessions : ws_ended[t] => AfterWsEnd(t))
    /\ [][\A t \in Sessions : WsEndSteps(t)]_vars

\* C17 witness: in the iteration after the WebSocket stream ended a chunk
\* was read and forwarded
C17_Witness ==
    /\ ws_ended[1]
    /\ ops[1] = 1
    /\ yielded[1] = "chunk"
    /\ pc[1] = "iter_end"
    /\ Len(sent[1]) = 1

\* C18 (as claimed): the events the front end consumes are those of the
\* session started last, so the session started last, while it runs and has
\* not been stopped by the user, is shown running: is_running holds and
\* proxy_abort is its handle.
C18_NoStaleStopped ==
    \A t \in Sessions :
        (t = spawned /\ Live(t) /\ aborted[t] = "no") =>
            is_running /\ proxy_abort = t

\* an event of an earlier session waits in the channel after a later session
\* was started
StaleEventPending ==
    \E i \in 1..Len(rx_event) : rx_event[i].sid < spawned

\* the Stopped of the first session has marked the second, which runs, as
\* not running
MarkedStoppedByStale ==
    /\ spawned = 2
    /\ Live(2)
    /\ aborted[2] = "no"
    /\ ~is_running
    /\ proxy_abort = 0
    /\ status_msg = "Stopped"
    /\ CountType(trace[1], "Stopped") = 1
    /\ CountType(trace[2], "Stopped") = 0

\* something may still reach the front end: a task that has not ended, or an
\* event waiting in the channel
StillToCome == (\E t \in Sessions : Live(t)) \/ rx_event # <<>>

\* C19 (as claimed): after stop_proxy, when no session is started again, the
\* status leaves "Stopping..." and becomes "Stopped": while the status is
\* "Stopping..." the Stopped event that will change it is still to come,
\* from a task that has not ended or from the channel.
C19_StopCompletes ==
    status_msg = "Stopping..." => StillToCome

\* the same as a property of the behaviours in which the task and the frames
\* are scheduled fairly
FairTunnel ==
    /\ SpecTunnel
    /\ WF_vars(Poll)
    /\ WF_vars(TaskStep(1, FewPayloads, SplitChunks, FewCuts, MaxRounds))
    /\ WF_vars(Cancel(1))

StoppingLeadsToStopped ==
    (status_msg = "Stopping...") ~> (status_msg = "Stopped")

\* the task was dropped at an .await: it sent no Stopped, nothing waits in
\* the channel, and the status is "Stopping..." for good
StoppingForGood ==
    /\ status_msg = "Stopping..."
    /\ ~is_running
    /\ proxy_abort = 0
    /\ pc[1] = "cancelled"
    /\ rx_event = <<>>
    /\ CountType(trace[1], "Stopped") = 0

\* abort() found the task in a poll that returned: its Stopped was consumed
\* and the status is "Stopped"
StoppedAfterStop ==
    /\ status_msg = "Stopped"
    /\ aborted[1] # "no"
    /\ pc[1] = "done"
    /\ rx_event = <<>>

\* C20 (as claimed): after any sequence of Log events, start_proxy and
\* stop_proxy, the log view holds at most LogLimit lines.
C20_LogViewBounded == Len(logs) <= LogLimit

\* what the code keeps: a Log event leaves at most LogLimit lines, and the
\* line stop_proxy pushes is not cut back, so that one more is the most
LogViewBoundedButStop == Len(logs) <= LogLimit + 1

\* the log view was full when [ STOP ] was clicked
StoppedOnFullLogs ==
    /\ Len(logs) = LogLimit + 1
    /\ logs[Len(logs)] = "Stopped by user."


=============================================================================
